---- MODULE Spec2Model ----
(***************************************************************************)
(* Assignment & reconciliation engine of the umpire scheduling app.        *)
(*                                                                         *)
(* The store is the Postgres schema of supabase/migrations (tables games,  *)
(* umpire_requests, ratings, external_umpire_leads) with its row level     *)
(* security policies, CHECK and UNIQUE constraints.  The clients are the   *)
(* React handlers: the umpire dashboard (fetchData, checkDoubleBooking,    *)
(* handleAcceptGame), the coach dashboard and its dialogs (request, rate,  *)
(* the two reconciliation wizards) and the employee dialog.  A handler is  *)
(* one step; the wizard handlers are two, the click and the return of      *)
(* their store calls, since their buttons stay live in between.  Each      *)
(* client works on the lists it fetched last.                              *)
(*                                                                         *)
(* Eight specifications: Spec, every handler with one umpire at work;      *)
(* SpecRace, two umpires at work on the games that are created; SpecCD,    *)
(* the conflict checker alone on every input within the bounds;            *)
(* SpecLedger, the rating dialog and the requests any signed-in user can   *)
(* send to the ratings table, on one accepted game over the edit window;   *)
(* SpecWizard, the two wizards on two lapsed games with a coach who goes   *)
(* forward, under fairness; SpecOpen, the list of open games on games with *)
(* and without coordinates; SpecBulk, the employee's bulk upload dialog on *)
(* every sheet within the bounds, in three time zones; SpecAccess, the     *)
(* name lookup and the updates and deletes of ratings and leads that any   *)
(* caller can send.                                                        *)
(*                                                                         *)
(* Time is counted in minutes.  A user holds exactly one role.             *)
(***************************************************************************)
EXTENDS Integers, Sequences, FiniteSets, TLC

\* ---------------------------------------------------------------- bounds
MaxGames == 2          \* rows the games table may hold
MaxLeads == 2          \* rows the external_umpire_leads table may hold
MaxMounts == 1         \* times a user loads their dashboard
MaxTicks == 1          \* times the clock advances
MaxFaults == 1         \* requests to the store that fail
TickStep == 200        \* minutes the clock advances by
MaxDiff  == 6          \* conflict checker inputs: instants 0..MaxDiff half hours
MaxLat   == 3          \* conflict checker inputs: venues 0..MaxLat, 15 miles apart

\* ---------------------------------------------------------------- users
Coaches   == {"c1"}
Umpires   == {"u1", "u2"}
Employees == {"e1"}
NULL      == "null"                 \* a null id or text
NONE      == 0 - 9999999            \* a null number (no coordinate is that small)

GameDates == {30, 150}          \* scheduled instants offered by the date pickers

\* ---------------------------------------------------------------- state
VARIABLES
  games,             \* table games: Seq of rows, id = index
  umpire_requests,   \* table umpire_requests
  ratings,           \* table ratings
  leads,             \* table external_umpire_leads
  now,               \* the clock, minutes
  ticks,             \* how often the clock advanced
  mounts,            \* how often each user loaded their dashboard
  faults,            \* how many requests to the store failed
  availableGames,    \* UmpireDashboard state, per umpire: Seq of game ids
  myGames,           \* UmpireDashboard state, per umpire: Seq of game ids
  refetch,           \* per umpire: the fetchData() of handleAcceptGame is under way
  toast,             \* the toast (sonner) the last step showed: to whom, and what
  coachGames,        \* CoachDashboard state games, per coach: the rows with a rating button
  wiz,               \* PastGamesNotificationDialog, per coach
  pwiz,              \* PastPendingGamesDialog, per coach
  rate,              \* RateUmpireDialog, per coach
  cd,                \* inputs and result of the conflict checker runs
  reply,             \* the last request a caller made of the ratings table, and its answer
  bulk               \* BulkUploadGamesDialog: the browser's time zone, the sheet, the form, the counts

storeVars  == <<games, umpire_requests, ratings, leads>>
umpireVars == <<availableGames, myGames, refetch>>
coachVars  == <<coachGames, wiz, pwiz, rate>>
vars == <<games, umpire_requests, ratings, leads, now, ticks, mounts, faults,
          availableGames, myGames, refetch, toast, coachGames, wiz, pwiz, rate, cd, reply,
          bulk>>

\* ---------------------------------------------------------------- helpers
GameIds == 1..Len(games)

Range(s) == {s[i] : i \in 1..Len(s)}

\* String.prototype.trim on the texts typed in: blanks alone trim to the
\* empty text, the other texts used here have no blanks around them.
Trim(str) == IF str = " " THEN "" ELSE str

Abs(x) == IF x < 0 THEN -x ELSE x

\* toast.success / toast.error shown to a user, about a game (0: none).
Toast(user, msg, game) == [user |-> user, msg |-> msg, game |-> game]
NoToast == Toast("null", "none", 0)

\* JavaScript truthiness of a number | null: null and 0 are falsy.
Truthy(x) == x # NONE /\ x # 0

\* ORDER BY game_date ASC over a set of game ids (ties in id order).  The
\* date of a game never changes.
RECURSIVE OrderByGameDate(_)
OrderByGameDate(S) ==
  IF S = {} THEN <<>>
  ELSE LET m == CHOOSE g \in S : \A h \in S :
                   \/ games[g].game_date < games[h].game_date
                   \/ games[g].game_date = games[h].game_date /\ g <= h
       IN <<m>> \o OrderByGameDate(S \ {m})

\* The index in rs of the rating of game g by coach c, or 0 (ratingsMap).
existing_rating(c, g, rs) ==
  IF \E i \in 1..Len(rs) : rs[i].game_id = g /\ rs[i].coach_id = c
  THEN CHOOSE i \in 1..Len(rs) : rs[i].game_id = g /\ rs[i].coach_id = c
  ELSE 0

\* fetchGames on the tables gs and rs: of the coach's games, the rows that
\* GameRatingDisplay is rendered for (completed, with an umpire), with the
\* fields the rating dialog reads.
fetchGames(c, gs, rs) ==
  LET shown == OrderByGameDate({g \in 1..Len(gs) : /\ gs[g].coach_id = c
                                                 /\ gs[g].status = "completed"
                                                 /\ gs[g].assigned_umpire_id # NULL})
  IN [i \in 1..Len(shown) |->
        [id |-> shown[i], assigned_umpire_id |-> gs[shown[i]].assigned_umpire_id,
         existing_rating |-> existing_rating(c, shown[i], rs)]]

\* ---------------------------------------------------------------- geometry
R == 3959              \* Earth's radius in miles

\* Venue k: 40 degrees north plus k steps of 0.2171 degree (15 miles), in
\* 1/10000 degree, on the meridian 90 degrees west.
Latitude(k) == 400000 + k * 2171
Meridian == 0 - 900000

\* Haversine distance, in 1/100 mile.  All located venues lie on one
\* meridian, where dLon = 0, a = sin^2(dLat/2) and c = |dLat|, so that the
\* result is R * |dLat| * PI / 180.  Latitudes are in 1/10000 degree.
\* The product is taken in two parts to stay within 32 bits; the result is
\* right to 1/100 mile.
calculateDistance(lat1, lon1, lat2, lon2) ==
  LET perDegree == (R * 314159) \div 18000          \* 1/1000 mile per degree
      dLat == Abs(lat2 - lat1)
  IN  (perDegree * (dLat \div 1000)) \div 100 + (perDegree * (dLat % 1000)) \div 100000

\* ---------------------------------------------------------------- ConflictDetector
twoHours == 120        \* 2 * 60 * 60 * 1000 ms, in minutes

\* The iteration as it would be if a pair without coordinates were passed over.
PairConflict_located(gameDate, gameLat, gameLng, game) ==
  LET timeDiff == Abs(gameDate - game.game_date)
  IN  /\ timeDiff < twoHours
      /\ Truthy(gameLat) /\ Truthy(gameLng)
      /\ Truthy(game.latitude) /\ Truthy(game.longitude)
      /\ timeDiff * 100 < 2 * calculateDistance(gameLat, gameLng,
                                                game.latitude, game.longitude) + 6000

\* The iteration as it would be without the hour of buffer.
PairConflict_nobuffer(gameDate, gameLat, gameLng, game) ==
  LET timeDiff == Abs(gameDate - game.game_date)
  IN  /\ timeDiff < twoHours
      /\ IF Truthy(gameLat) /\ Truthy(gameLng)
            /\ Truthy(game.latitude) /\ Truthy(game.longitude)
         THEN timeDiff * 100 < 2 * calculateDistance(gameLat, gameLng,
                                                     game.latitude, game.longitude)
         ELSE TRUE

\* The iteration as it would be at a travel speed of 60 miles an hour.
PairConflict_highway(gameDate, gameLat, gameLng, game) ==
  LET timeDiff == Abs(gameDate - game.game_date)
  IN  /\ timeDiff < twoHours
      /\ IF Truthy(gameLat) /\ Truthy(gameLng)
            /\ Truthy(game.latitude) /\ Truthy(game.longitude)
         THEN timeDiff * 100 < calculateDistance(gameLat, gameLng,
                                                 game.latitude, game.longitude) + 6000
         ELSE TRUE

\* One iteration of the loop of checkDoubleBooking: TRUE when the iteration
\* returns true.  Times are compared in 1/100 minute.
PairConflict(gameDate, gameLat, gameLng, game) ==
  LET timeDiff == Abs(gameDate - game.game_date)
  IN  /\ timeDiff < twoHours
      /\ IF Truthy(gameLat) /\ Truthy(gameLng)
            /\ Truthy(game.latitude) /\ Truthy(game.longitude)
         THEN LET distance == calculateDistance(gameLat, gameLng,
                                                game.latitude, game.longitude)
                  travelTimeMinutes == 2 * distance        \* (distance / 30) * 60
                  requiredBuffer == travelTimeMinutes + 6000
              IN  timeDiff * 100 < requiredBuffer
         ELSE TRUE

\* mine: the rows of myGames.
checkDoubleBooking(gameDate, gameLat, gameLng, mine) ==
  \E i \in 1..Len(mine) : PairConflict(gameDate, gameLat, gameLng, mine[i])

\* ---------------------------------------------------------------- row level security
\* has_role(auth.uid(), r): a user holds the one role of its set.
has_role(uid, role) ==
  \/ role = "umpire"   /\ uid \in Umpires
  \/ role = "employee" /\ uid \in Employees
  \/ role = "coach"    /\ uid \in Coaches

\* The USING clause as it would be if the umpires' policy looked at the role only.
GamesUpdateUsing_role(uid, row) ==
  \/ uid = row.coach_id
  \/ has_role(uid, "employee")
  \/ has_role(uid, "umpire")

\* games FOR UPDATE ... USING: the permissive policies are OR-ed.
GamesUpdateUsing(uid, row) ==
  \/ uid = row.coach_id                                   \* Coaches can update their own games
  \/ has_role(uid, "employee")                            \* Employees can manage all games
  \/ /\ has_role(uid, "umpire")                           \* Umpires can accept unassigned games
     /\ row.assigned_umpire_id = NULL
     /\ row.status = "pending"

\* games FOR UPDATE ... WITH CHECK on the new row (USING where none is given).
GamesUpdateCheck(uid, row) ==
  \/ uid = row.coach_id
  \/ has_role(uid, "employee")
  \/ /\ has_role(uid, "umpire")
     /\ row.assigned_umpire_id = uid
     /\ row.status = "assigned"

\* UPDATE games SET ... WHERE id = id, as uid.  A row the USING clause hides
\* is not updated and no error is raised.
GamesUpdate(uid, id, newRow) ==
  IF id \notin GameIds \/ ~GamesUpdateUsing(uid, games[id])
  THEN [tbl |-> games, error |-> NULL, rows |-> 0]
  ELSE IF ~GamesUpdateCheck(uid, newRow)
  THEN [tbl |-> games, error |-> "42501", rows |-> 0]
  ELSE [tbl |-> [games EXCEPT ![id] = newRow], error |-> NULL, rows |-> 1]

\* umpire_requests FOR UPDATE: only "Employees can manage all requests".
RequestsUpdateUsing(uid, row) == has_role(uid, "employee")

\* UPDATE umpire_requests SET status = st WHERE game_id = gid, as uid.
RequestsUpdate(uid, gid, st) ==
  [i \in 1..Len(umpire_requests) |->
     IF umpire_requests[i].game_id = gid /\ RequestsUpdateUsing(uid, umpire_requests[i])
     THEN [umpire_requests[i] EXCEPT !.status = st]
     ELSE umpire_requests[i]]

\* games / umpire_requests FOR INSERT ... WITH CHECK.
GamesInsertCheck(uid, row) == uid = row.coach_id \/ has_role(uid, "employee")
RequestsInsertCheck(uid, row) == uid = row.coach_id \/ has_role(uid, "employee")

\* The policy as it would be if it asked for an assigned game.
RatingsInsertCheck_assigned(uid, gs, row) ==
  /\ uid = row.coach_id
  /\ \E g \in 1..Len(gs) : /\ g = row.game_id
                           /\ gs[g].coach_id = uid
                           /\ gs[g].status = "assigned"

\* ratings FOR INSERT: "Coaches can create ratings for completed games".
\* gs: the games table at the time of the insert.
RatingsInsertCheck(uid, gs, row) ==
  /\ uid = row.coach_id
  /\ \E g \in 1..Len(gs) : /\ g = row.game_id
                           /\ gs[g].coach_id = uid
                           /\ gs[g].status = "completed"

\* CHECK (rating >= 1 AND rating <= 5)
RatingCheck(row) == row.rating >= 1 /\ row.rating <= 5

\* The table as it would be without its unique index.
RatingsUnique_none(row) == TRUE

\* UNIQUE(game_id, coach_id)
RatingsUnique(row) ==
  \A i \in 1..Len(ratings) :
     ~(ratings[i].game_id = row.game_id /\ ratings[i].coach_id = row.coach_id)

\* An insert that would drop the rating it collides with.
RatingsInsert_replace(uid, gs, row) ==
  IF ~RatingsInsertCheck(uid, gs, row) THEN [tbl |-> ratings, error |-> "42501"]
  ELSE IF row.umpire_id = NULL THEN [tbl |-> ratings, error |-> "23502"]
  ELSE IF ~RatingCheck(row) THEN [tbl |-> ratings, error |-> "23514"]
  ELSE IF ~RatingsUnique(row)
       THEN [tbl |-> SelectSeq(ratings, LAMBDA r : ~(r.game_id = row.game_id /\ r.coach_id = row.coach_id)),
             error |-> "23505"]
  ELSE [tbl |-> Append(ratings, row), error |-> NULL]

\* INSERT INTO ratings, as uid: the policy first, then the column
\* constraints, then the unique index.
RatingsInsert(uid, gs, row) ==
  IF ~RatingsInsertCheck(uid, gs, row) THEN [tbl |-> ratings, error |-> "42501"]
  ELSE IF row.umpire_id = NULL THEN [tbl |-> ratings, error |-> "23502"]
  ELSE IF ~RatingCheck(row) THEN [tbl |-> ratings, error |-> "23514"]
  ELSE IF ~RatingsUnique(row) THEN [tbl |-> ratings, error |-> "23505"]
  ELSE [tbl |-> Append(ratings, row), error |-> NULL]

\* external_umpire_leads FOR INSERT: own leads, or an employee.
LeadsInsertCheck(uid, row) == uid = row.coach_id \/ has_role(uid, "employee")

LeadsInsert(uid, row) ==
  IF ~LeadsInsertCheck(uid, row) THEN [tbl |-> leads, error |-> "42501"]
  ELSE IF row.game_id \notin GameIds THEN [tbl |-> leads, error |-> "23503"]
  ELSE [tbl |-> Append(leads, row), error |-> NULL]

\* ---------------------------------------------------------------- initial state
NoWizard == [open |-> FALSE, games |-> <<>>, currentIndex |-> 0, loading |-> FALSE,
             game |-> 0, last |-> FALSE, rating |-> 0]
NoPending == [open |-> FALSE, games |-> <<>>, currentIndex |-> 0, submitting |-> FALSE,
              game |-> 0, last |-> FALSE, index |-> 0, played |-> FALSE,
              gameCompleted |-> NULL, umpireName |-> "", howFound |-> ""]
NoRate == [open |-> FALSE, game |-> 0, assigned_umpire_id |-> NULL, existing_rating |-> 0]
NoCheck == [run |-> "off"]
NoReply == [op |-> "none"]
NoBulk == [tz |-> 0, open |-> FALSE, sheet |-> <<>>, fileName |-> FALSE,
           selectedCoachId |-> NULL, parsedGames |-> <<>>,
           successCount |-> 0, errorCount |-> 0]

InitClients ==
  /\ availableGames = [u \in Umpires |-> <<>>]
  /\ myGames = [u \in Umpires |-> <<>>]
  /\ refetch = [u \in Umpires |-> FALSE]
  /\ toast = NoToast
  /\ coachGames = [c \in Coaches |-> <<>>]
  /\ wiz = [c \in Coaches |-> NoWizard]
  /\ pwiz = [c \in Coaches |-> NoPending]
  /\ rate = [c \in Coaches |-> NoRate]

InitStore ==
  /\ games = <<>>
  /\ umpire_requests = <<>>
  /\ ratings = <<>>
  /\ leads = <<>>
  /\ now = 0
  /\ ticks = 0
  /\ mounts = [u \in Umpires \cup Coaches |-> 0]
  /\ faults = 0

Init == InitStore /\ InitClients /\ cd = NoCheck /\ reply = NoReply /\ bulk = NoBulk

\* ---------------------------------------------------------------- the network
\* A request to the store fails (failing) or is served.
Fault(failing) ==
  /\ failing => faults < MaxFaults
  /\ faults' = IF failing THEN faults + 1 ELSE faults

\* ---------------------------------------------------------------- the clock
Tick ==
  /\ ticks < MaxTicks
  /\ ticks' = ticks + 1
  /\ now' = now + TickStep
  /\ toast' = NoToast
  /\ UNCHANGED <<storeVars, mounts, umpireVars, coachVars, cd, reply, faults, bulk>>

\* ---------------------------------------------------------------- UmpireDashboard
\* profiles.home_latitude / home_longitude of an umpire.
Home(u) == IF u = "u1" THEN [lat |-> Latitude(0), lng |-> Meridian]
                       ELSE [lat |-> NONE, lng |-> NONE]

maxDistance == 50

\* The rows of a list of game ids.
Rows(ids) == [i \in 1..Len(ids) |-> games[ids[i]]]

\* fetchData: the two queries on games (the profile and rating queries feed
\* the display only).
fetchData(u) ==
  /\ availableGames' = [availableGames EXCEPT ![u] = OrderByGameDate(
        {g \in GameIds : /\ games[g].assigned_umpire_id = NULL
                         /\ games[g].status = "pending"
                         /\ games[g].game_date >= now})]
  /\ myGames' = [myGames EXCEPT ![u] = OrderByGameDate(
        {g \in GameIds : games[g].assigned_umpire_id = u})]

\* The dashboard is loaded: useEffect runs fetchData on fresh state.
UmpireDashboardMount(u) ==
  /\ mounts[u] < MaxMounts
  /\ mounts' = [mounts EXCEPT ![u] = @ + 1]
  /\ fetchData(u)
  /\ refetch' = [refetch EXCEPT ![u] = FALSE]
  /\ toast' = NoToast
  /\ UNCHANGED <<storeVars, now, ticks, coachVars, cd, reply, faults, bulk>>

\* The fetchData() that handleAcceptGame started returns.
fetchDataReturns(u) ==
  /\ refetch[u]
  /\ fetchData(u)
  /\ refetch' = [refetch EXCEPT ![u] = FALSE]
  /\ toast' = NoToast
  /\ UNCHANGED <<storeVars, now, ticks, mounts, coachVars, cd, reply, faults, bulk>>

\* filteredGames: the games of availableGames shown with an Accept button.
filteredGames(u) ==
  SelectSeq(availableGames[u], LAMBDA g :
    IF ~Truthy(Home(u).lat) \/ ~Truthy(Home(u).lng)
       \/ ~Truthy(games[g].latitude) \/ ~Truthy(games[g].longitude)
    THEN TRUE
    ELSE calculateDistance(Home(u).lat, Home(u).lng,
                           games[g].latitude, games[g].longitude) <= maxDistance * 100)

\* handleAcceptGame: the conflict check on myGames, the update of games, the
\* update of umpire_requests (its error is not looked at), the toast, and
\* the start of fetchData.  failed: the request to update games fails (none
\* is made after a conflict).
handleAcceptGame(u, g, failed) ==
  /\ g \in Range(filteredGames(u))
  /\ failed => ~checkDoubleBooking(games[g].game_date, games[g].latitude,
                                    games[g].longitude, Rows(myGames[u]))
  /\ IF checkDoubleBooking(games[g].game_date, games[g].latitude,
                           games[g].longitude, Rows(myGames[u]))
     THEN /\ toast' = Toast(u, "accept_conflict", g)
          /\ UNCHANGED <<games, umpire_requests, refetch>>
     ELSE LET r == GamesUpdate(u, g, [games[g] EXCEPT !.assigned_umpire_id = u,
                                                      !.status = "assigned"])
          IN IF failed \/ r.error # NULL
             THEN /\ toast' = Toast(u, "accept_error", g)
                  /\ UNCHANGED <<games, umpire_requests, refetch>>
             ELSE /\ games' = r.tbl
                  /\ umpire_requests' = RequestsUpdate(u, g, "accepted")
                  /\ toast' = Toast(u, "accept_success", g)
                  /\ refetch' = [refetch EXCEPT ![u] = TRUE]
  /\ UNCHANGED <<ratings, leads, now, ticks, mounts, availableGames, myGames, coachVars, cd, reply, bulk>>
  /\ Fault(failed)
\* ---------------------------------------------------------------- create
\* The inserted row as it would be if the dialog wrote status "assigned".
NewGame_assigned(coach, d) ==
  [coach_id |-> coach, game_date |-> d, latitude |-> NONE, longitude |-> NONE,
   status |-> "assigned", assigned_umpire_id |-> NULL]

NewGame(coach, d) ==
  [coach_id |-> coach, game_date |-> d, latitude |-> NONE, longitude |-> NONE,
   status |-> "pending", assigned_umpire_id |-> NULL]

NewRequest(gid, coach) == [game_id |-> gid, coach_id |-> coach, status |-> "pending"]

\* Both create dialogs: insert the game as uid for coach, then its request.
\* failed names the insert whose request fails: "none", "game" or "request".
CreateGameAndRequest(uid, coach, d, failed, okToast, errToast) ==
  /\ Len(games) < MaxGames
  /\ d >= now                               \* the calendar disables past dates
  /\ IF failed = "game" \/ ~GamesInsertCheck(uid, NewGame(coach, d))
     THEN /\ toast' = Toast(uid, errToast, 0)
          /\ UNCHANGED <<games, umpire_requests>>
     ELSE /\ games' = Append(games, NewGame(coach, d))
          /\ IF failed = "request"
                \/ ~RequestsInsertCheck(uid, NewRequest(Len(games) + 1, coach))
             THEN /\ toast' = Toast(uid, errToast, Len(games) + 1)
                  /\ UNCHANGED umpire_requests
             ELSE /\ umpire_requests' =
                       Append(umpire_requests, NewRequest(Len(games) + 1, coach))
                  /\ toast' = Toast(uid, okToast, Len(games) + 1)
  /\ UNCHANGED <<ratings, leads, now, ticks, mounts, umpireVars, wiz, pwiz, rate, cd, reply, bulk>>
  /\ Fault(failed # "none")
\* RequestUmpireDialog.handleSubmit, by a coach for themselves; onSuccess is
\* fetchGames.
RequestUmpireDialog_handleSubmit(c, d, failed) ==
  /\ CreateGameAndRequest(c, c, d, failed, "request_success", "request_error")
  /\ coachGames' = IF toast'.msg = "request_success"
                   THEN [coachGames EXCEPT ![c] = fetchGames(c, games', ratings)]
                   ELSE coachGames

\* CreateGameRequestDialog.handleSubmit, by an employee for selectedCoachId.
CreateGameRequestDialog_handleSubmit(e, c, d, failed) ==
  /\ CreateGameAndRequest(e, c, d, failed, "create_success", "create_error")
  /\ UNCHANGED coachGames

\* ---------------------------------------------------------------- PastGamesNotificationDialog
\* checkPastGames: the coach's assigned games whose date has passed.
checkPastGames(c) ==
  LET pastGames == OrderByGameDate(
        {g \in GameIds : /\ games[g].coach_id = c
                         /\ games[g].status = "assigned"
                         /\ games[g].assigned_umpire_id # NULL
                         /\ games[g].game_date < now})
  IN IF Len(pastGames) > 0
     THEN [NoWizard EXCEPT !.games = pastGames, !.open = TRUE]
     ELSE NoWizard

\* currentGame = games[currentIndex] (0-based in the code, 1-based here).
wizCurrent(w) == IF w.currentIndex + 1 <= Len(w.games)
                 THEN w.games[w.currentIndex + 1] ELSE 0
wizIsLast(w) == w.currentIndex = Len(w.games) - 1

\* onOpenChange(false); onComplete(): the dialog closes and the list is emptied.
wizClosed(w) == [w EXCEPT !.open = FALSE, !.games = <<>>]

\* The handler returns: finally { setLoading(false) }, its locals are gone.
wizReturned(w) == [w EXCEPT !.loading = FALSE, !.game = 0, !.last = FALSE,
                            !.rating = 0]

\* handleConfirmAndRate up to its first await.  rating 0 is the no-show box.
handleConfirmAndRate(c, rating) ==
  /\ wiz[c].open /\ ~wiz[c].loading
  /\ wizCurrent(wiz[c]) # 0
  /\ wiz' = [wiz EXCEPT ![c].loading = TRUE,
                        ![c].game = wizCurrent(wiz[c]),
                        ![c].last = wizIsLast(wiz[c]),
                        ![c].rating = rating]
  /\ toast' = NoToast
  /\ UNCHANGED <<storeVars, now, ticks, mounts, umpireVars, coachGames, pwiz, rate, cd, reply, faults, bulk>>

\* The store calls of handleConfirmAndRate return: the update of games to
\* completed, then the insert of the rating, where a duplicate (23505) is
\* passed over.  failed names the call whose request fails: "none", "game"
\* or "rating".  The umpire of the rating is currentGame.assigned_umpire_id,
\* which is the store's: once set, the umpire of a game does not change.
handleConfirmAndRate_returns(c, comment, failed) ==
  /\ wiz[c].loading
  /\ LET g == wiz[c].game
         rg == GamesUpdate(c, g, [games[g] EXCEPT !.status = "completed"])
     IN IF failed = "game" \/ rg.error # NULL
        THEN /\ toast' = Toast(c, "confirm_error", g)
             /\ wiz' = [wiz EXCEPT ![c] = wizReturned(@)]
             /\ UNCHANGED <<games, ratings>>
        ELSE /\ games' = rg.tbl
             /\ LET rr == RatingsInsert(c, rg.tbl,
                            [game_id |-> g, coach_id |-> c,
                             umpire_id |-> games[g].assigned_umpire_id,
                             rating |-> wiz[c].rating, comment |-> comment,
                             created_at |-> now])
                IN IF failed = "rating" \/ (rr.error # NULL /\ rr.error # "23505")
                   THEN /\ toast' = Toast(c, "confirm_error", g)
                        /\ wiz' = [wiz EXCEPT ![c] = wizReturned(@)]
                        /\ UNCHANGED ratings
                   ELSE /\ ratings' = rr.tbl
                        /\ toast' = Toast(c, "confirm_success", g)
                        /\ wiz' = [wiz EXCEPT ![c] =
                             IF wiz[c].last
                             THEN wizReturned(wizClosed(@))
                             ELSE wizReturned([@ EXCEPT !.currentIndex = @ + 1])]
  /\ coachGames' = IF toast'.msg = "confirm_success" /\ wiz[c].last
                   THEN [coachGames EXCEPT ![c] = fetchGames(c, games', ratings')]
                   ELSE coachGames
  /\ UNCHANGED <<umpire_requests, leads, now, ticks, mounts, umpireVars, pwiz, rate, cd, reply, bulk>>
  /\ Fault(failed # "none")
\* A Skip that would close the game as it passes it.
handleSkip_completes(c) ==
  /\ wiz[c].open
  /\ wizCurrent(wiz[c]) # 0
  /\ games' = [games EXCEPT ![wizCurrent(wiz[c])].status = "completed"]
  /\ wiz' = [wiz EXCEPT ![c] = IF wizIsLast(@) THEN wizClosed(@)
                               ELSE [@ EXCEPT !.currentIndex = @ + 1]]
  /\ coachGames' = IF wizIsLast(wiz[c])
                   THEN [coachGames EXCEPT ![c] = fetchGames(c, games', ratings)]
                   ELSE coachGames
  /\ toast' = NoToast
  /\ UNCHANGED <<umpire_requests, ratings, leads, now, ticks, mounts, umpireVars, pwiz, rate, cd, reply, faults, bulk>>

\* handleSkip: the next game, or the end of the wizard; no store call.
handleSkip(c) ==
  /\ wiz[c].open
  /\ wizCurrent(wiz[c]) # 0
  /\ wiz' = [wiz EXCEPT ![c] = IF wizIsLast(@) THEN wizClosed(@)
                               ELSE [@ EXCEPT !.currentIndex = @ + 1]]
  /\ coachGames' = IF wizIsLast(wiz[c])
                   THEN [coachGames EXCEPT ![c] = fetchGames(c, games, ratings)]
                   ELSE coachGames
  /\ toast' = NoToast
  /\ UNCHANGED <<storeVars, now, ticks, mounts, umpireVars, pwiz, rate, cd, reply, faults, bulk>>

handlePrevious(c) ==
  /\ wiz[c].open
  /\ wizCurrent(wiz[c]) # 0
  /\ wiz[c].currentIndex > 0
  /\ wiz' = [wiz EXCEPT ![c].currentIndex = @ - 1]
  /\ toast' = NoToast
  /\ UNCHANGED <<storeVars, now, ticks, mounts, umpireVars, coachGames, pwiz, rate, cd, reply, faults, bulk>>

\* ---------------------------------------------------------------- PastPendingGamesDialog
\* The scan that opens the dialog: the coach's pending, never assigned games
\* whose date has passed.
checkPastPendingGames(c) ==
  LET pastGames == OrderByGameDate(
        {g \in GameIds : /\ games[g].coach_id = c
                         /\ games[g].status = "pending"
                         /\ games[g].assigned_umpire_id = NULL
                         /\ games[g].game_date < now})
  IN IF Len(pastGames) > 0
     THEN [NoPending EXCEPT !.games = pastGames, !.open = TRUE]
     ELSE NoPending

\* The form of the dialog: the answer to "did this game take place?", not
\* given yet, yes or no; the name typed in; the channel, "" until one of
\* HOW_FOUND_OPTIONS is selected.
GameCompletedInputs == {NULL, "true", "false"}
UmpireNames == {"", " ", "Bob"}
HowFound == {"", "referral"}

\* A form that would let every submit through.
canSubmit_any(gameCompleted, umpireName, howFound) == TRUE

\* canSubmit(): the submit button is disabled unless it holds.
canSubmit(gameCompleted, umpireName, howFound) ==
  IF gameCompleted = NULL THEN FALSE
  ELSE IF gameCompleted = "false" THEN TRUE
  ELSE Trim(umpireName) # "" /\ howFound # ""

\* The handler returns: finally { setSubmitting(false) }, its locals are gone.
pwizReturned(w) == [w EXCEPT !.submitting = FALSE, !.game = 0, !.last = FALSE,
                             !.index = 0, !.played = FALSE,
                             !.gameCompleted = NULL, !.umpireName = "",
                             !.howFound = ""]

\* handleSubmit up to the first store call, clicked with the form as it is:
\* the button is enabled when canSubmit() holds.  The handler keeps the
\* form's values of its render: the answer, played for if (gameCompleted),
\* and name and channel, which it reads for a played game only.
PastPending_handleSubmit(c, gameCompleted, umpireName, howFound) ==
  /\ pwiz[c].open /\ ~pwiz[c].submitting
  /\ wizCurrent(pwiz[c]) # 0
  /\ canSubmit(gameCompleted, umpireName, howFound)
  /\ gameCompleted = "true" => Len(leads) < MaxLeads
  /\ pwiz' = [pwiz EXCEPT ![c].submitting = TRUE,
                          ![c].game = wizCurrent(pwiz[c]),
                          ![c].last = wizIsLast(pwiz[c]),
                          ![c].index = pwiz[c].currentIndex,
                          ![c].gameCompleted = gameCompleted,
                          ![c].played = (gameCompleted = "true"),
                          ![c].umpireName = IF gameCompleted = "true" THEN umpireName ELSE "",
                          ![c].howFound = IF gameCompleted = "true" THEN howFound ELSE ""]
  /\ toast' = NoToast
  /\ UNCHANGED <<storeVars, now, ticks, mounts, umpireVars, coachGames, wiz, rate, cd, reply, faults, bulk>>

\* The store calls of handleSubmit return: for a played game the insert of
\* the lead, then the update of games to completed; else the update of games
\* to cancelled.  failed names the call whose request fails: "none", "lead"
\* or "game".
PastPending_returns(c, failed) ==
  /\ pwiz[c].submitting
  /\ failed = "lead" => pwiz[c].played
  /\ LET g == pwiz[c].game
         rl == IF pwiz[c].played
               THEN LeadsInsert(c, [game_id |-> g, coach_id |-> c,
                                    umpire_name |-> Trim(pwiz[c].umpireName),
                                    how_found |-> pwiz[c].howFound])
               ELSE [tbl |-> leads, error |-> NULL]
         st == IF pwiz[c].played THEN "completed" ELSE "cancelled"
         rg == GamesUpdate(c, g, [games[g] EXCEPT !.status = st])
     IN IF pwiz[c].played /\ (failed = "lead" \/ rl.error # NULL)
        THEN /\ toast' = Toast(c, "save_error", g)
             /\ pwiz' = [pwiz EXCEPT ![c] = pwizReturned(@)]
             /\ UNCHANGED <<games, leads>>
        ELSE /\ leads' = rl.tbl
             /\ IF failed = "game" \/ rg.error # NULL
                THEN /\ toast' = Toast(c, "save_error", g)
                     /\ pwiz' = [pwiz EXCEPT ![c] = pwizReturned(@)]
                     /\ UNCHANGED games
                ELSE /\ games' = rg.tbl
                     /\ toast' = Toast(c, IF pwiz[c].played THEN "saved"
                                          ELSE "marked_cancelled", g)
                     /\ pwiz' = [pwiz EXCEPT ![c] =
                          IF pwiz[c].last
                          THEN pwizReturned(wizClosed(@))
                          ELSE pwizReturned(
                                 [@ EXCEPT !.currentIndex = pwiz[c].index + 1])]
  /\ coachGames' = IF toast'.msg \in {"saved", "marked_cancelled"} /\ pwiz[c].last
                   THEN [coachGames EXCEPT ![c] = fetchGames(c, games', ratings)]
                   ELSE coachGames
  /\ UNCHANGED <<umpire_requests, ratings, now, ticks, mounts, umpireVars, wiz, rate, cd, reply, bulk>>
  /\ Fault(failed # "none")
PastPending_handleSkip(c) ==
  /\ pwiz[c].open
  /\ wizCurrent(pwiz[c]) # 0
  /\ pwiz' = [pwiz EXCEPT ![c] = IF wizIsLast(@) THEN wizClosed(@)
                                 ELSE [@ EXCEPT !.currentIndex = @ + 1]]
  /\ coachGames' = IF wizIsLast(pwiz[c])
                   THEN [coachGames EXCEPT ![c] = fetchGames(c, games, ratings)]
                   ELSE coachGames
  /\ toast' = NoToast
  /\ UNCHANGED <<storeVars, now, ticks, mounts, umpireVars, wiz, rate, cd, reply, faults, bulk>>

\* The Previous button, shown when currentIndex > 0.
PastPending_previous(c) ==
  /\ pwiz[c].open
  /\ wizCurrent(pwiz[c]) # 0
  /\ pwiz[c].currentIndex > 0
  /\ pwiz' = [pwiz EXCEPT ![c].currentIndex = @ - 1]
  /\ toast' = NoToast
  /\ UNCHANGED <<storeVars, now, ticks, mounts, umpireVars, coachGames, wiz, rate, cd, reply, faults, bulk>>

\* ---------------------------------------------------------------- CoachDashboard
\* The dashboard is loaded: fresh component state, then the scans for
\* lapsed games open the wizards.
CoachDashboardMount(c) ==
  /\ ~wiz[c].loading /\ ~pwiz[c].submitting
  /\ mounts[c] < MaxMounts
  /\ mounts' = [mounts EXCEPT ![c] = @ + 1]
  /\ wiz' = [wiz EXCEPT ![c] = checkPastGames(c)]
  /\ pwiz' = [pwiz EXCEPT ![c] = checkPastPendingGames(c)]
  /\ coachGames' = [coachGames EXCEPT ![c] = fetchGames(c, games, ratings)]
  /\ rate' = [rate EXCEPT ![c] = NoRate]
  /\ toast' = NoToast
  /\ UNCHANGED <<storeVars, now, ticks, umpireVars, cd, reply, faults, bulk>>

\* differenceInHours(new Date(), created_at) < 24
canEditRating(rating) == (now - rating.created_at) \div 60 < 24

\* The Rate Umpire button of the i-th row shown, or its Edit button, which is
\* there while the rating can be edited: selectedGame is the row.
handleRateUmpire(c, i) ==
  /\ ~rate[c].open
  /\ i \in 1..Len(coachGames[c])
  /\ coachGames[c][i].existing_rating # 0
       => canEditRating(ratings[coachGames[c][i].existing_rating])
  /\ rate' = [rate EXCEPT ![c] =
       [open |-> TRUE, game |-> coachGames[c][i].id,
        assigned_umpire_id |-> coachGames[c][i].assigned_umpire_id,
        existing_rating |-> coachGames[c][i].existing_rating]]
  /\ toast' = NoToast
  /\ UNCHANGED <<storeVars, now, ticks, mounts, umpireVars, coachGames, wiz, pwiz, cd, reply, faults, bulk>>

\* The USING clause as it would be if coaches could update their own ratings.
RatingsUpdateUsing_owner(uid, row) == uid = row.coach_id

\* ratings FOR UPDATE: no policy grants it.
RatingsUpdateUsing(uid, row) == FALSE

\* UPDATE ratings SET rating, comment WHERE id = id, as uid.
RatingsUpdate(uid, id, rating, comment) ==
  [i \in 1..Len(ratings) |->
     IF i = id /\ RatingsUpdateUsing(uid, ratings[i])
     THEN [ratings[i] EXCEPT !.rating = rating, !.comment = comment]
     ELSE ratings[i]]

\* RateUmpireDialog.handleSubmit: update the existing rating or insert one;
\* onSuccess is fetchGames and setSelectedGame(null).
RateUmpireDialog_handleSubmit(c, rating, comment, failed) ==
  /\ rate[c].open
  /\ LET g == rate[c].game
         r == IF rate[c].existing_rating # 0
              THEN [tbl |-> RatingsUpdate(c, rate[c].existing_rating, rating, comment),
                    error |-> NULL]
              ELSE RatingsInsert(c, games,
                                 [game_id |-> g, coach_id |-> c,
                                  umpire_id |-> rate[c].assigned_umpire_id,
                                  rating |-> rating, comment |-> comment,
                                  created_at |-> now])
     IN IF failed \/ r.error # NULL
        THEN /\ toast' = Toast(c, IF ~failed /\ r.error = "23505"
                                  THEN "already_rated" ELSE "rating_error", g)
             /\ UNCHANGED <<ratings, rate, coachGames>>
        ELSE /\ ratings' = r.tbl
             /\ toast' = Toast(c, IF rate[c].existing_rating # 0
                                  THEN "rating_updated" ELSE "rating_submitted", g)
             /\ rate' = [rate EXCEPT ![c] = NoRate]
             /\ coachGames' = [coachGames EXCEPT ![c] = fetchGames(c, games, r.tbl)]
  /\ UNCHANGED <<games, umpire_requests, leads, now, ticks, mounts, umpireVars,
                 wiz, pwiz, cd, reply, bulk>>
  /\ Fault(failed)

\* ---------------------------------------------------------------- the conflict checker alone
\* The inputs of a run of checkDoubleBooking: instants half an hour apart,
\* venues without coordinates, with one coordinate, on the equator (latitude
\* 0) and 15 miles apart along the meridian.
Instants == {30 * k : k \in 0..MaxDiff}

Venues ==
  {[latitude |-> NONE, longitude |-> NONE],
   [latitude |-> Latitude(0), longitude |-> NONE],
   [latitude |-> 0, longitude |-> Meridian]}
  \cup {[latitude |-> Latitude(k), longitude |-> Meridian] : k \in 0..MaxLat}

Assignments ==
  {[game_date |-> d, latitude |-> v.latitude, longitude |-> v.longitude] :
     d \in Instants, v \in Venues}

Loads == {<<>>} \cup {<<a>> : a \in Assignments}
                \cup {<<a, b>> : a \in Assignments, b \in Assignments}

InitCD ==
  /\ InitStore /\ InitClients
  /\ cd \in {[run |-> "in", game |-> a, myGames |-> l] : a \in Assignments, l \in Loads}
  /\ reply = NoReply /\ bulk = NoBulk

\* checkDoubleBooking(gameDate, gameLat, gameLng) is called and returns.
RunCheckDoubleBooking ==
  /\ cd.run = "in"
  /\ cd' = [cd EXCEPT !.run = "out"] @@
           [result |-> checkDoubleBooking(cd.game.game_date, cd.game.latitude,
                                          cd.game.longitude, cd.myGames)]
  /\ UNCHANGED <<storeVars, now, ticks, mounts, umpireVars, toast, coachVars, reply, faults,
                 bulk>>

\* ---------------------------------------------------------------- the ratings table alone
\* The signed-in users: each can send requests to the store through the
\* client library, with their own token.
Callers == Coaches \cup Umpires \cup Employees

\* The score and comment of a rating that is stored before the dialog is used.
FirstRatings == {5}
FirstComments == {"fine"}

\* The instants at which the ratings table is looked at: a rating's creation,
\* 23h59m later and 24h01m later.
LedgerInstants == {TickStep, TickStep + 1439, TickStep + 1441}

\* A game that umpire u1 has accepted, still assigned or completed by the
\* wizard, its request as handleAcceptGame leaves it; for a completed game,
\* no rating yet or the coach's rating; the clock at the rating's creation.
InitLedger ==
  /\ InitClients /\ cd = NoCheck /\ reply = NoReply /\ bulk = NoBulk
  /\ \E c \in Coaches, d \in GameDates, st \in {"assigned", "completed"} :
       /\ games = <<[NewGame(c, d) EXCEPT !.status = st, !.assigned_umpire_id = "u1"]>>
       /\ umpire_requests = <<NewRequest(1, c)>>
       /\ ratings \in {<<>>} \cup
            {<<[game_id |-> 1, coach_id |-> c, umpire_id |-> "u1", rating |-> r,
                comment |-> m, created_at |-> TickStep]>> :
               r \in {x \in FirstRatings : st = "completed"}, m \in FirstComments}
  /\ leads = <<>>
  /\ now = TickStep
  /\ ticks = 0
  /\ mounts = [u \in Umpires \cup Coaches |-> 0]
  /\ faults = 0

\* new Date(): time passes between the clicks.
LedgerClock ==
  /\ \E t \in LedgerInstants : t > now /\ now' = t
  /\ toast' = NoToast
  /\ UNCHANGED <<storeVars, ticks, mounts, umpireVars, coachVars, cd, reply, faults, bulk>>

\* supabase.from("ratings").insert(row), sent by uid outside the dialog of
\* this session: by the coach from another session, or by any caller with a
\* row of their choosing.  The store answers as it answers the dialog.
RatingsInsertRequest(uid, row) ==
  /\ LET r == RatingsInsert(uid, games, row)
     IN /\ ratings' = r.tbl
        /\ reply' = [op |-> "insert", uid |-> uid, row |-> row, error |-> r.error]
  /\ toast' = NoToast
  /\ UNCHANGED <<games, umpire_requests, leads, now, ticks, mounts, umpireVars,
                 coachVars, cd, faults, bulk>>

\* supabase.from("ratings").update({rating, comment}).eq("id", id), sent by
\* uid.  An update that matches no row the caller may update raises no error.
RatingsUpdateRequest(uid, id, rating, comment) ==
  /\ id \in 1..Len(ratings)
  /\ ratings' = RatingsUpdate(uid, id, rating, comment)
  /\ reply' = [op |-> "update", uid |-> uid, id |-> id, error |-> NULL]
  /\ toast' = NoToast
  /\ UNCHANGED <<games, umpire_requests, leads, now, ticks, mounts, umpireVars,
                 coachVars, cd, faults, bulk>>

\* ---------------------------------------------------------------- BulkUploadGamesDialog
MaxRows == 2           \* rows of an uploaded sheet

\* The insert of a create that fails, if any.
Failures == {"none", "game", "request"}

\* A cell as sheet_to_json(sheet, {raw: false, dateNF: "yyyy-mm-dd"}) hands
\* it over is a text.  A text is kept by its form: kind "empty" is "",
\* "iso_date" is yyyy-mm-dd, "us_date" is m/d/yyyy, "iso_datetime" is
\* yyyy-mm-ddThh:mm, "hhmm" is hh:mm and "words" is a text in none of these
\* forms ("TBD").  day counts the days from 2025-05-31, min the minutes from
\* midnight.  An instant is counted in minutes from 2025-05-31T00:00Z.
Text(kind, day, min) == [kind |-> kind, day |-> day, min |-> min]
EmptyText == Text("empty", 0, 0)
Words == Text("words", 0, 0)

\* The browser's time zone on 2025-06-01, in minutes east of UTC: UTC, New
\* York, Berlin.
TimeZones == {0, 0 - 240, 120}

\* new Date(text).getTime(): a date-only ISO text is midnight UTC, the other
\* date forms are local time; NONE is NaN.
NewDate(value, tz) ==
  CASE value.kind = "iso_date" -> value.day * 1440
    [] value.kind = "us_date" -> value.day * 1440 - tz
    [] value.kind = "iso_datetime" -> value.day * 1440 + value.min - tz
    [] OTHER -> NONE

\* parseExcelDate on a text: the date is that of toISOString() (UTC), the
\* time that of getHours() and getMinutes() (local).  ok FALSE is null.
parseExcelDate(value, tz) ==
  LET t == NewDate(value, tz)
  IN IF value = EmptyText \/ t = NONE
     THEN [ok |-> FALSE, date |-> EmptyText, time |-> EmptyText]
     ELSE [ok |-> TRUE, date |-> Text("iso_date", t \div 1440, 0),
           time |-> Text("hhmm", 0, (t + tz) % 1440)]

\* The callback of jsonData.map in handleFileUpload: a row of cells to a
\* ParsedGame.  A cell is the first non-empty one of its column names.
ParseRow(row, tz) ==
  LET timeValue == IF row.time # EmptyText THEN row.time ELSE Text("hhmm", 0, 18 * 60)
      parsed == IF row.datetime # EmptyText THEN parseExcelDate(row.datetime, tz)
                ELSE parseExcelDate(row.date, tz)
      parsedDate == IF parsed.ok THEN parsed.date ELSE row.date
      parsedTime == IF parsed.ok /\ (row.datetime # EmptyText
                                     \/ parsed.time # Text("hhmm", 0, 0))
                    THEN parsed.time ELSE timeValue
      errors == (IF row.opponent = "" THEN <<"Missing opponent">> ELSE <<>>)
                \o (IF row.location = "" THEN <<"Missing location">> ELSE <<>>)
                \o (IF parsedDate = EmptyText THEN <<"Missing/invalid date">> ELSE <<>>)
  IN [opponent |-> Trim(row.opponent), location |-> Trim(row.location),
      date |-> parsedDate, time |-> parsedTime,
      valid |-> errors = <<>>, error |-> errors]

\* The rows of a sheet: the opponent empty, blank or named; the location
\* empty or named; the date cell empty, 2025-06-01, 6/1/2025 or TBD; the
\* time cell empty or 14:30; the datetime cell empty, 2025-06-01T14:30 or TBD.
SheetRows ==
  [opponent : {"", " ", "Tigers"},
   location : {"", "Field 3"},
   date : {EmptyText, Text("iso_date", 1, 0), Text("us_date", 1, 0), Words},
   time : {EmptyText, Text("hhmm", 0, 14 * 60 + 30)},
   datetime : {EmptyText, Text("iso_datetime", 1, 14 * 60 + 30), Words}]

Sheets == UNION {[1..n -> SheetRows] : n \in 0..MaxRows}

\* The dialog is open on a reset form, in a browser of some time zone.
InitBulk ==
  /\ InitStore /\ InitClients /\ cd = NoCheck /\ reply = NoReply
  /\ \E z \in TimeZones : bulk = [NoBulk EXCEPT !.tz = z, !.open = TRUE]

\* handleFileUpload: a file is chosen, once per opening of the dialog; its
\* first sheet is parsed into parsedGames and the counts are shown.
handleFileUpload(e) ==
  /\ bulk.open /\ ~bulk.fileName
  /\ \E sheet \in Sheets :
       LET parsed == [i \in 1..Len(sheet) |-> ParseRow(sheet[i], bulk.tz)]
       IN /\ bulk' = [bulk EXCEPT !.sheet = sheet, !.fileName = TRUE,
                                  !.parsedGames = parsed]
          /\ toast' = Toast(e, IF \E i \in 1..Len(parsed) : ~parsed[i].valid
                               THEN "parse_warning" ELSE "parse_success", 0)
  /\ UNCHANGED <<storeVars, now, ticks, mounts, umpireVars, coachVars, cd, reply, faults>>

\* The coach is chosen in the Select.
setSelectedCoachId(c) ==
  /\ bulk.open
  /\ bulk' = [bulk EXCEPT !.selectedCoachId = c]
  /\ toast' = NoToast
  /\ UNCHANGED <<storeVars, now, ticks, mounts, umpireVars, coachVars, cd, reply, faults>>

\* `${game.date}T${game.time}`
DateT(date, time) ==
  IF date.kind = "iso_date" /\ time.kind = "hhmm"
  THEN Text("iso_datetime", date.day, time.min) ELSE Words

\* The loop as it would be if it stopped at the first row that fails.
RECURSIVE BulkCreate_abort(_, _, _, _, _, _)
BulkCreate_abort(e, coach, tz, rows, fails, acc) ==
  IF rows = <<>> THEN acc
  ELSE LET t == NewDate(DateT(rows[1].date, rows[1].time), tz)
           g == NewGame(coach, t)
           q == NewRequest(Len(acc.games) + 1, coach)
       IN IF t = NONE \/ fails[1] = "game" \/ ~GamesInsertCheck(e, g)
          THEN [acc EXCEPT !.errorCount = @ + 1]
          ELSE IF fails[1] = "request" \/ ~RequestsInsertCheck(e, q)
          THEN [acc EXCEPT !.games = Append(@, g), !.errorCount = @ + 1]
          ELSE BulkCreate_abort(e, coach, tz, Tail(rows), Tail(fails),
                 [acc EXCEPT !.games = Append(@, g), !.requests = Append(@, q),
                             !.successCount = @ + 1])

\* The loop of handleSubmit over validGames: per row the date, the insert
\* of the game, the insert of its request.  fails names, per row, the
\* insert whose request fails: "none", "game" or "request".
RECURSIVE BulkCreate(_, _, _, _, _, _)
BulkCreate(e, coach, tz, rows, fails, acc) ==
  IF rows = <<>> THEN acc
  ELSE LET t == NewDate(DateT(rows[1].date, rows[1].time), tz)
           g == NewGame(coach, t)
           q == NewRequest(Len(acc.games) + 1, coach)
       IN BulkCreate(e, coach, tz, Tail(rows), Tail(fails),
            IF t = NONE \/ fails[1] = "game" \/ ~GamesInsertCheck(e, g)
            THEN [acc EXCEPT !.errorCount = @ + 1]
            ELSE IF fails[1] = "request" \/ ~RequestsInsertCheck(e, q)
            THEN [acc EXCEPT !.games = Append(@, g), !.errorCount = @ + 1]
            ELSE [acc EXCEPT !.games = Append(@, g), !.requests = Append(@, q),
                             !.successCount = @ + 1])

\* parsedGames.filter(g => g.valid)
validGames == SelectSeq(bulk.parsedGames, LAMBDA g : g.valid)

\* handleSubmit; its button is enabled once a coach is chosen and a row is
\* valid.  A request fails only on a row that gets as far as making it.
BulkUpload_handleSubmit(e) ==
  /\ bulk.open /\ bulk.selectedCoachId # NULL /\ Len(validGames) > 0
  /\ Len(games) + Len(validGames) <= MaxGames
  /\ \E fails \in [1..Len(validGames) -> Failures] :
       /\ \A i \in 1..Len(validGames) :
            NewDate(DateT(validGames[i].date, validGames[i].time), bulk.tz) = NONE
              => fails[i] = "none"
       /\ faults + Cardinality({i \in 1..Len(validGames) : fails[i] # "none"}) <= MaxFaults
       /\ faults' = faults + Cardinality({i \in 1..Len(validGames) : fails[i] # "none"})
       /\ LET r == BulkCreate(e, bulk.selectedCoachId, bulk.tz, validGames, fails,
                              [games |-> games, requests |-> umpire_requests,
                               successCount |-> 0, errorCount |-> 0])
          IN /\ games' = r.games
             /\ umpire_requests' = r.requests
             /\ bulk' = [bulk EXCEPT !.successCount = r.successCount,
                                     !.errorCount = r.errorCount,
                                     !.open = r.successCount = 0]
             /\ toast' = Toast(e, IF r.successCount > 0 THEN "bulk_created"
                                  ELSE "bulk_failed", 0)
  /\ UNCHANGED <<ratings, leads, now, ticks, mounts, umpireVars, coachVars, cd, reply>>

\* ---------------------------------------------------------------- the store's interface alone
\* Another coach, who owns none of the games; no policy asks for the coach
\* role.
OtherCoaches == {"c2"}

\* Who can send a request to the store: the signed-in users with their
\* token, and anyone with the project's public key alone, for whom
\* auth.uid() is NULL.
Anyone == Callers \cup OtherCoaches \cup {NULL}

\* profiles.full_name of an umpire.
full_name(u) == IF u = "u1" THEN "Uma Pyre" ELSE "Ugo Ref"

\* a != b in SQL is true: neither side is NULL and they differ.  On a NULL
\* side the comparison is NULL, and IF does not take its branch.
SqlDistinct(a, b) == a # NULL /\ b # NULL /\ a # b

\* get_assigned_umpire_name(game_id_param), called as uid; SECURITY DEFINER,
\* so it reads games and profiles past their policies.  A game_id_param that
\* names no game leaves requesting_coach_id NULL.
get_assigned_umpire_name(uid, game_id_param) ==
  LET found == game_id_param \in GameIds
      requesting_coach_id == IF found THEN games[game_id_param].coach_id ELSE NULL
  IN IF SqlDistinct(requesting_coach_id, uid) THEN NULL
     ELSE IF found /\ games[game_id_param].assigned_umpire_id # NULL
          THEN full_name(games[game_id_param].assigned_umpire_id)
          ELSE NULL

\* supabase.rpc("get_assigned_umpire_name", {game_id_param}), sent by uid.
LookupRequest(uid, game_id_param) ==
  /\ reply' = [op |-> "lookup", uid |-> uid, id |-> game_id_param,
               result |-> get_assigned_umpire_name(uid, game_id_param)]
  /\ toast' = NoToast
  /\ UNCHANGED <<storeVars, now, ticks, mounts, umpireVars, coachVars, cd, faults, bulk>>

\* ratings FOR DELETE: no policy grants it.
RatingsDeleteUsing(uid, row) == FALSE

\* supabase.from("ratings").delete().eq("id", id), sent by uid.  A delete
\* that matches no row the caller may delete raises no error.
RatingsDeleteRequest(uid, id) ==
  /\ id \in 1..Len(ratings)
  /\ ratings' = IF RatingsDeleteUsing(uid, ratings[id])
                THEN SubSeq(ratings, 1, id - 1) \o SubSeq(ratings, id + 1, Len(ratings))
                ELSE ratings
  /\ reply' = [op |-> "ratings_delete", uid |-> uid, id |-> id, error |-> NULL]
  /\ toast' = NoToast
  /\ UNCHANGED <<games, umpire_requests, leads, now, ticks, mounts, umpireVars,
                 coachVars, cd, faults, bulk>>

\* external_umpire_leads FOR UPDATE and FOR DELETE: "Employees can manage
\* all leads" FOR ALL is the one policy that grants them.
LeadsManageUsing(uid, row) == has_role(uid, "employee")

\* supabase.from("external_umpire_leads").update({umpire_name}).eq("id", id),
\* sent by uid.
LeadsUpdateRequest(uid, id, name) ==
  /\ id \in 1..Len(leads)
  /\ leads' = IF LeadsManageUsing(uid, leads[id])
              THEN [leads EXCEPT ![id].umpire_name = name]
              ELSE leads
  /\ reply' = [op |-> "leads_update", uid |-> uid, id |-> id, error |-> NULL]
  /\ toast' = NoToast
  /\ UNCHANGED <<games, umpire_requests, ratings, now, ticks, mounts, umpireVars,
                 coachVars, cd, faults, bulk>>

\* supabase.from("external_umpire_leads").delete().eq("id", id), sent by uid.
LeadsDeleteRequest(uid, id) ==
  /\ id \in 1..Len(leads)
  /\ leads' = IF LeadsManageUsing(uid, leads[id])
              THEN SubSeq(leads, 1, id - 1) \o SubSeq(leads, id + 1, Len(leads))
              ELSE leads
  /\ reply' = [op |-> "leads_delete", uid |-> uid, id |-> id, error |-> NULL]
  /\ toast' = NoToast
  /\ UNCHANGED <<games, umpire_requests, ratings, now, ticks, mounts, umpireVars,
                 coachVars, cd, faults, bulk>>

\* Two lapsed games of a coach: one that an umpire accepted, assigned still
\* or completed and rated by the coach, and one that was played with an
\* umpire found elsewhere, with its lead.
InitAccess ==
  /\ InitClients /\ cd = NoCheck /\ reply = NoReply /\ bulk = NoBulk
  /\ \E c \in Coaches, u \in Umpires, st \in {"assigned", "completed"} :
       /\ games = <<[NewGame(c, 30) EXCEPT !.status = st, !.assigned_umpire_id = u],
                    [NewGame(c, 150) EXCEPT !.status = "completed"]>>
       /\ umpire_requests = <<NewRequest(1, c), NewRequest(2, c)>>
       /\ ratings = IF st = "completed"
                    THEN <<[game_id |-> 1, coach_id |-> c, umpire_id |-> u, rating |-> 5,
                            comment |-> "fine", created_at |-> TickStep]>>
                    ELSE <<>>
       /\ leads = <<[game_id |-> 2, coach_id |-> c, umpire_name |-> "Bob",
                     how_found |-> "referral"]>>
  /\ now = TickStep
  /\ ticks = 0
  /\ mounts = [u \in Umpires \cup Coaches |-> 0]
  /\ faults = 0

\* ---------------------------------------------------------------- specifications
InputRatings == {0, 4}
Comments == {"good"}

Clock == Tick

Create ==
  \/ \E c \in Coaches, d \in GameDates, failed \in Failures :
        RequestUmpireDialog_handleSubmit(c, d, failed)
  \/ \E e \in Employees, c \in Coaches, d \in GameDates, failed \in Failures :
        CreateGameRequestDialog_handleSubmit(e, c, d, failed)

UmpireDashboard(u) ==
  \/ UmpireDashboardMount(u)
  \/ fetchDataReturns(u)
  \/ \E g \in GameIds, failed \in BOOLEAN : handleAcceptGame(u, g, failed)

CoachDashboard(c) ==
  \/ CoachDashboardMount(c)
  \/ \E rating \in InputRatings : handleConfirmAndRate(c, rating)
  \/ \E comment \in Comments, failed \in {"none", "game", "rating"} :
        handleConfirmAndRate_returns(c, comment, failed)
  \/ handleSkip(c)
  \/ handlePrevious(c)
  \/ \E gameCompleted \in GameCompletedInputs, umpireName \in UmpireNames,
        howFound \in HowFound :
          PastPending_handleSubmit(c, gameCompleted, umpireName, howFound)
  \/ \E failed \in {"none", "lead", "game"} : PastPending_returns(c, failed)
  \/ PastPending_handleSkip(c)
  \/ PastPending_previous(c)
  \/ \E i \in 1..MaxGames : handleRateUmpire(c, i)
  \/ \E rating \in InputRatings, comment \in Comments, failed \in BOOLEAN :
        RateUmpireDialog_handleSubmit(c, rating, comment, failed)

\* Every handler, with one umpire at work.
Next ==
  \/ Clock
  \/ Create
  \/ UmpireDashboard("u1")
  \/ \E c \in Coaches : CoachDashboard(c)

Spec == Init /\ [][Next]_vars

\* Two umpires at work on the games the coaches and employees create.
NextRace ==
  \/ Clock
  \/ Create
  \/ \E u \in Umpires : UmpireDashboard(u)

SpecRace == Init /\ [][NextRace]_vars

\* The conflict checker on every input of Assignments x Loads.
SpecCD == InitCD /\ [][RunCheckDoubleBooking]_vars

\* The coach's dashboard and rating dialog, and the requests of any caller,
\* on the ratings of one accepted game.
NextLedger ==
  \/ LedgerClock
  \/ \E c \in Coaches : CoachDashboardMount(c)
  \/ \E c \in Coaches, i \in 1..MaxGames : handleRateUmpire(c, i)
  \/ \E c \in Coaches, rating \in InputRatings, comment \in Comments, failed \in BOOLEAN :
        RateUmpireDialog_handleSubmit(c, rating, comment, failed)
  \/ \E uid \in Callers, c \in Coaches, g \in GameIds, u \in Umpires,
         rating \in FirstRatings, comment \in FirstComments :
        RatingsInsertRequest(uid, [game_id |-> g, coach_id |-> c, umpire_id |-> u,
                                   rating |-> rating, comment |-> comment,
                                   created_at |-> now])
  \/ \E uid \in Callers, id \in 1..MaxGames, rating \in InputRatings, comment \in Comments :
        RatingsUpdateRequest(uid, id, rating, comment)

SpecLedger == InitLedger /\ [][NextLedger]_vars

\* The two wizards of one coach on lapsed games, the coach going forward
\* only.  Two games of the coach have lapsed, each accepted by umpire u1 or
\* never accepted, the requests as handleAcceptGame leaves them.
InitWizard ==
  /\ InitClients /\ cd = NoCheck /\ reply = NoReply /\ bulk = NoBulk
  /\ \E c \in Coaches, st \in [1..MaxGames -> {"pending", "assigned"}] :
       /\ games = [g \in 1..MaxGames |->
                     [NewGame(c, IF g = 1 THEN 30 ELSE 150) EXCEPT
                        !.status = st[g],
                        !.assigned_umpire_id = IF st[g] = "assigned" THEN "u1" ELSE NULL]]
       /\ umpire_requests = [g \in 1..MaxGames |-> NewRequest(g, c)]
  /\ ratings = <<>>
  /\ leads = <<>>
  /\ now = TickStep
  /\ ticks = 0
  /\ mounts = [u \in Umpires \cup Coaches |-> 0]
  /\ faults = 0

\* The clicks of a coach who goes forward: Skip in either wizard.
Skips(c) == handleSkip(c) \/ PastPending_handleSkip(c)

\* The store calls of either wizard return.
Returns(c) ==
  \/ \E comment \in Comments, failed \in {"none", "game", "rating"} :
        handleConfirmAndRate_returns(c, comment, failed)
  \/ \E failed \in {"none", "lead", "game"} : PastPending_returns(c, failed)

NextWizard ==
  \E c \in Coaches :
     \/ CoachDashboardMount(c)
     \/ \E rating \in InputRatings : handleConfirmAndRate(c, rating)
     \/ \E gameCompleted \in GameCompletedInputs, umpireName \in UmpireNames,
        howFound \in HowFound :
          PastPending_handleSubmit(c, gameCompleted, umpireName, howFound)
     \/ Returns(c)
     \/ Skips(c)

\* The store answers every call, and a coach who can skip the game shown
\* does so unless a confirm or submit moves the wizard on.
SpecWizard ==
  /\ InitWizard /\ [][NextWizard]_vars
  /\ \A c \in Coaches :
        /\ WF_vars(Returns(c))
        /\ WF_vars(handleSkip(c))
        /\ WF_vars(PastPending_handleSkip(c))

\* The list of open games alone.  The games table as the umpire dashboard
\* may find it: up to MaxGames games, each pending, accepted by the other
\* umpire, completed or cancelled; scheduled before or after now; without
\* coordinates, with a latitude only, on the equator, 15 miles north of the
\* home of umpire u1 and 60 miles north of it.
OpenInstant == 100

OpenVenues ==
  {[latitude |-> NONE, longitude |-> NONE],
   [latitude |-> Latitude(0), longitude |-> NONE],
   [latitude |-> 0, longitude |-> Meridian],
   [latitude |-> Latitude(1), longitude |-> Meridian],
   [latitude |-> Latitude(MaxLat + 1), longitude |-> Meridian]}

OpenRows ==
  {[NewGame(c, d) EXCEPT !.latitude = v.latitude, !.longitude = v.longitude,
                         !.status = st.status, !.assigned_umpire_id = st.umpire] :
     c \in Coaches, d \in GameDates, v \in OpenVenues,
     st \in {[status |-> "pending", umpire |-> NULL],
             [status |-> "assigned", umpire |-> "u2"],
             [status |-> "completed", umpire |-> "u2"],
             [status |-> "cancelled", umpire |-> NULL]}}

InitOpen ==
  /\ InitClients /\ cd = NoCheck /\ reply = NoReply /\ bulk = NoBulk
  /\ \E n \in 0..MaxGames : games \in [1..n -> OpenRows]
  /\ umpire_requests = [g \in 1..Len(games) |-> NewRequest(g, games[g].coach_id)]
  /\ ratings = <<>>
  /\ leads = <<>>
  /\ now = OpenInstant
  /\ ticks = 0
  /\ mounts = [u \in Umpires \cup Coaches |-> 0]
  /\ faults = 0

\* Each umpire loads the dashboard: fetchData, then filteredGames is shown.
NextOpen == \E u \in Umpires : UmpireDashboardMount(u)

SpecOpen == InitOpen /\ [][NextOpen]_vars

\* The bulk upload dialog of an employee, on an empty games table.
NextBulk ==
  \E e \in Employees :
     \/ handleFileUpload(e)
     \/ \E c \in Coaches : setSelectedCoachId(c)
     \/ BulkUpload_handleSubmit(e)

SpecBulk == InitBulk /\ [][NextBulk]_vars

\* The requests anyone can send about the games, ratings and leads of a
\* coach: the name lookup, and updates and deletes of ratings and leads.
NextAccess ==
  \E uid \in Anyone :
     \/ \E g \in 1..MaxGames + 1 : LookupRequest(uid, g)
     \/ \E id \in 1..MaxGames, rating \in InputRatings, comment \in Comments :
          RatingsUpdateRequest(uid, id, rating, comment)
     \/ \E id \in 1..MaxGames : RatingsDeleteRequest(uid, id)
     \/ \E id \in 1..MaxLeads, name \in {"Rob"} : LeadsUpdateRequest(uid, id, name)
     \/ \E id \in 1..MaxLeads : LeadsDeleteRequest(uid, id)

SpecAccess == InitAccess /\ [][NextAccess]_vars

\* ---------------------------------------------------------------- properties
\* The assigned games of an umpire in the store.
AssignedTo(u) == {g \in GameIds : games[g].assigned_umpire_id = u
                                  /\ games[g].status = "assigned"}

\* C1: once a game has an assigned umpire, no step changes it; the umpire of
\* a game is only ever set on a pending game without one, together with the
\* status assigned.  Of two accepts of one game, the first alone takes effect.
AcceptNeverOverwrites ==
  [][\A g \in GameIds :
       games'[g].assigned_umpire_id # games[g].assigned_umpire_id =>
         /\ games[g].assigned_umpire_id = NULL
         /\ games[g].status = "pending"
         /\ games'[g].status = "assigned"]_vars

\* C1, its case: u2 has accepted a game that u1 had accepted before, and the
\* game is still u1's.
SecondAcceptLost ==
  \E g \in GameIds : /\ games[g].assigned_umpire_id = "u1"
                     /\ toast = Toast("u2", "accept_success", g)

\* C2: an accept that is shown as a success has taken effect: the game is
\* assigned to the umpire who was told so (an accept of a game no longer pending
\* and unassigned is reported as a failure).
AcceptSuccessTookEffect ==
  toast.msg = "accept_success" =>
    /\ games[toast.game].assigned_umpire_id = toast.user
    /\ games[toast.game].status = "assigned"

StatusTransitions ==
  [][\A g \in GameIds :
       games'[g].status # games[g].status =>
         <<games[g].status, games'[g].status>> \in
           {<<"pending", "assigned">>, <<"pending", "cancelled">>,
            <<"assigned", "completed">>, <<"assigned", "cancelled">>,
            <<"pending", "completed">>}]_vars

\* C5: the request of a game is accepted if and only if the game is assigned.
RequestLockstep ==
  \A i \in 1..Len(umpire_requests) :
    umpire_requests[i].status = "accepted"
      <=> games[umpire_requests[i].game_id].status = "assigned"

\* C6: no two ratings have the same game and the same coach.
OneRatingPerGameAndCoach ==
  \A i, j \in 1..Len(ratings) :
    ratings[i].game_id = ratings[j].game_id /\ ratings[i].coach_id = ratings[j].coach_id
      => i = j

\* C6, its case: the wizard is sending the rating of a game the coach has
\* rated already (after Previous), which the unique index will refuse.
SecondRatingUnderWay ==
  \E c \in Coaches : /\ wiz[c].loading
                      /\ existing_rating(c, wiz[c].game, ratings) # 0

\* C7: no umpire holds two assigned games that conflict with one another (an
\* accept takes effect only if the game conflicts with none the umpire holds
\* in the store).
NoConflictingAssignments ==
  \A u \in Umpires : \A g, h \in AssignedTo(u) :
    g # h => ~PairConflict(games[g].game_date, games[g].latitude,
                           games[g].longitude, games[h])

\* The time between the candidate and the i-th game of the list, in minutes.
Delta(i) == Abs(cd.game.game_date - cd.myGames[i].game_date)

\* The candidate or the i-th game of the list lacks a coordinate.
LacksCoordinates(i) ==
  \/ cd.game.latitude = NONE \/ cd.game.longitude = NONE
  \/ cd.myGames[i].latitude = NONE \/ cd.myGames[i].longitude = NONE

\* C8: the checker returns true whenever a game of the list is less than two
\* hours from the candidate, with or without coordinates, at any distance.
WithinTwoHoursConflicts ==
  cd.run = "out" =>
    ((\E i \in 1..Len(cd.myGames) : Delta(i) < twoHours) => cd.result)

\* C9: against one game two hours or more away in time, both games with
\* coordinates, the checker returns true if and only if the time between
\* them does not exceed the travel time at 30 miles an hour plus one hour
\* (in 1/100 minute: 2 * distance + 6000).
TravelBufferDecides ==
  cd.run = "out" /\ Len(cd.myGames) = 1 =>
    (Delta(1) >= twoHours /\ ~LacksCoordinates(1) =>
       (cd.result <=>
          Delta(1) * 100 <= 2 * calculateDistance(cd.game.latitude, cd.game.longitude,
                                                  cd.myGames[1].latitude,
                                                  cd.myGames[1].longitude) + 6000))

\* C10: when every pair of the candidate and a game of the list lacks a
\* coordinate, the checker returns true if and only if a game of the list is
\* less than two hours from the candidate.
WithoutCoordinatesTwoHoursDecides ==
  cd.run = "out" /\ (\A i \in 1..Len(cd.myGames) : LacksCoordinates(i)) =>
    (cd.result <=> \E i \in 1..Len(cd.myGames) : Delta(i) < twoHours)

\* C10, its case: a candidate without coordinates, 90 minutes from a game
\* with coordinates, is a conflict.
ConflictWithoutCoordinates ==
  /\ cd.run = "out" /\ Len(cd.myGames) = 1
  /\ cd.game.latitude = NONE /\ cd.myGames[1].latitude # NONE
  /\ cd.myGames[1].longitude # NONE
  /\ Delta(1) = 90
  /\ cd.result

\* The distance between the candidate and the i-th game of the list, both
\* with coordinates, in 1/100 mile.
Distance(i) == calculateDistance(cd.game.latitude, cd.game.longitude,
                                 cd.myGames[i].latitude, cd.myGames[i].longitude)

\* C11: the checker returns true whenever a game of the list is at the same
\* instant as the candidate, whichever coordinates are there or missing and
\* whatever the distance.
SameInstantConflicts ==
  cd.run = "out" =>
    ((\E i \in 1..Len(cd.myGames) : Delta(i) = 0) => cd.result)

\* C11, its case: a candidate at the instant of the one game of the list,
\* both with coordinates, at the same venue, is a conflict.
SameInstantSameVenueConflict ==
  /\ cd.run = "out" /\ Len(cd.myGames) = 1
  /\ ~LacksCoordinates(1) /\ Truthy(cd.game.latitude)
  /\ Delta(1) = 0 /\ Distance(1) = 0
  /\ cd.result

\* C12: against one game 30 miles away (to a tenth of a mile), both games
\* with coordinates, a candidate three hours later is no conflict and a
\* candidate an hour and a half later is one.
ThirtyMilesApart ==
  cd.run = "out" /\ Len(cd.myGames) = 1 /\ ~LacksCoordinates(1)
  /\ Truthy(cd.game.latitude) /\ Truthy(cd.myGames[1].latitude)
  /\ Distance(1) \in 2990..3010
    => /\ cd.game.game_date - cd.myGames[1].game_date = 180 => ~cd.result
       /\ cd.game.game_date - cd.myGames[1].game_date = 90 => cd.result

\* C12, its case: the candidate an hour and a half after a game 30 miles
\* away is a conflict.
NinetyMinutesThirtyMilesConflict ==
  /\ cd.run = "out" /\ Len(cd.myGames) = 1 /\ ~LacksCoordinates(1)
  /\ Truthy(cd.game.latitude) /\ Truthy(cd.myGames[1].latitude)
  /\ Distance(1) \in 2990..3010
  /\ cd.game.game_date - cd.myGames[1].game_date = 90
  /\ cd.result

\* The ratings of game g in the table rs.
RatingsOf(g, rs) == {i \in 1..Len(rs) : rs[i].game_id = g}

\* The toasts by which a confirm, a submit of the pending wizard, an accept
\* or a create reports that it failed.
FailureToasts == {"confirm_error", "save_error", "accept_error", "accept_conflict",
                  "request_error", "create_error"}

\* C13: a confirm, a submit of the pending wizard, an accept or a create
\* that reports failure leaves the four tables as they were.
FailureLeavesStoreUnchanged ==
  [][toast'.msg \in FailureToasts => storeVars' = storeVars]_vars

\* C14: when the confirm of an assigned and lapsed game with four stars
\* returns, its requests served, the coach is told it succeeded, the game is
\* completed, and the game has exactly one rating: four stars, by that coach,
\* about the umpire the game is assigned to.
ConfirmCompletesAndRates ==
  [][\A c \in Coaches :
       /\ wiz[c].loading /\ ~wiz'[c].loading
       /\ wiz[c].rating = 4 /\ faults' = faults
       /\ games[wiz[c].game].status = "assigned"
       => /\ toast' = Toast(c, "confirm_success", wiz[c].game)
          /\ games'[wiz[c].game].status = "completed"
          /\ Cardinality(RatingsOf(wiz[c].game, ratings')) = 1
          /\ \A i \in RatingsOf(wiz[c].game, ratings') :
                /\ ratings'[i].rating = 4
                /\ ratings'[i].coach_id = c
                /\ ratings'[i].umpire_id = games'[wiz[c].game].assigned_umpire_id
                /\ ratings'[i].umpire_id \in Umpires]_vars

\* C14, its case: a game that was created, accepted and, its date passed,
\* confirmed with four stars.
ConfirmedWithFourStars ==
  \E c \in Coaches, g \in GameIds :
    /\ toast = Toast(c, "confirm_success", g)
    /\ games[g].status = "completed" /\ games[g].assigned_umpire_id = "u1"
    /\ \E i \in RatingsOf(g, ratings) : ratings[i].rating = 4

\* C15: when the confirm of an assigned and lapsed game with the no-show box
\* ticked returns, its requests served, the game is completed and has a
\* rating of 0 by that coach; every stored rating is within 0..5.
NoShowStoresZero ==
  [][\A c \in Coaches :
       /\ wiz[c].loading /\ ~wiz'[c].loading
       /\ wiz[c].rating = 0 /\ faults' = faults
       /\ games[wiz[c].game].status = "assigned"
       => /\ games'[wiz[c].game].status = "completed"
          /\ \E i \in RatingsOf(wiz[c].game, ratings') :
                ratings'[i].rating = 0 /\ ratings'[i].coach_id = c
          /\ \A i \in 1..Len(ratings') : ratings'[i].rating \in 0..5]_vars

\* The leads of game g in the table ls.
LeadsOf(g, ls) == {i \in 1..Len(ls) : ls[i].game_id = g}

\* C16: when the submit of the pending wizard for a pending, never accepted
\* game returns, its requests served: after "it was played" the game is
\* completed and has a lead, after "it was not played" the game is cancelled
\* and has no lead.
PendingLapsedResolution ==
  [][\A c \in Coaches :
       /\ pwiz[c].submitting /\ ~pwiz'[c].submitting
       /\ faults' = faults
       /\ games[pwiz[c].game].status = "pending"
       /\ games[pwiz[c].game].assigned_umpire_id = NULL
       => IF pwiz[c].played
          THEN /\ games'[pwiz[c].game].status = "completed"
               /\ LeadsOf(pwiz[c].game, leads') # {}
          ELSE /\ games'[pwiz[c].game].status = "cancelled"
               /\ LeadsOf(pwiz[c].game, leads') = {}]_vars

\* C17: every stored rating is of a completed game and names the umpire the
\* game is assigned to; an insert for a game that is not completed, or naming
\* another umpire, is answered with an error.
RatingNamesCompletedGameAndItsProvider ==
  /\ \A i \in 1..Len(ratings) :
       /\ games[ratings[i].game_id].status = "completed"
       /\ ratings[i].umpire_id = games[ratings[i].game_id].assigned_umpire_id
  /\ reply.op = "insert"
     /\ (\/ games[reply.row.game_id].status # "completed"
         \/ reply.row.umpire_id # games[reply.row.game_id].assigned_umpire_id)
       => reply.error # NULL

\* The toasts of RateUmpireDialog.handleSubmit.
RatingToasts == {"rating_submitted", "rating_updated", "already_rated", "rating_error"}

\* C18: when the rating dialog, opened on a completed game without a rating
\* of the coach's, is submitted after the coach has rated the game, its
\* request served, the coach is told that the game is rated already and the
\* ratings table stays as it was.
DuplicateRatingRefused ==
  [][\A c \in Coaches :
       /\ rate[c].open /\ rate[c].existing_rating = 0
       /\ toast'.user = c /\ toast'.msg \in RatingToasts /\ faults' = faults
       /\ games[rate[c].game].status = "completed"
       /\ existing_rating(c, rate[c].game, ratings) # 0
       => toast'.msg = "already_rated" /\ ratings' = ratings]_vars

\* C19: when the rating dialog, opened on the coach's rating, is submitted,
\* its request served: up to 23h59m after the rating's creation the coach is
\* told the rating is updated and the stored score and comment are the
\* submitted ones; from 24h01m on the coach is told it failed and the rating
\* stays as it was.
EditWindowDecides ==
  [][\A c \in Coaches :
       /\ rate[c].open /\ rate[c].existing_rating # 0
       /\ toast'.user = c /\ toast'.msg \in RatingToasts /\ faults' = faults
       => IF now - ratings[rate[c].existing_rating].created_at <= 1439
          THEN /\ toast'.msg = "rating_updated"
               /\ ratings'[rate[c].existing_rating].rating \in InputRatings
               /\ ratings'[rate[c].existing_rating].comment \in Comments
          ELSE /\ toast'.msg = "rating_error"
               /\ ratings' = ratings]_vars

\* C20: an update of a rating sent by another caller than the coach who
\* created it is answered with an error and leaves the ratings as they were.
ForeignUpdateRefused ==
  [][reply' # reply /\ reply'.op = "update"
     /\ reply'.uid # ratings[reply'.id].coach_id
       => reply'.error # NULL /\ ratings' = ratings]_vars

\* The requests of game g in the table rs.
RequestsOf(g, rs) == {i \in 1..Len(rs) : rs[i].game_id = g}

\* The toasts of a create that succeeded, by a coach or by an employee.
CreateToasts == {"request_success", "create_success"}

\* C21: a create that reports success has added exactly one game, pending
\* and without an umpire, and exactly one request, pending, of that game and
\* of the game's coach; and after every step each game has a request of its
\* coach.
CreateAddsGameAndRequest ==
  [][/\ toast'.msg \in CreateToasts =>
          /\ Len(games') = Len(games) + 1
          /\ SubSeq(games', 1, Len(games)) = games
          /\ games'[Len(games')].status = "pending"
          /\ games'[Len(games')].assigned_umpire_id = NULL
          /\ Len(umpire_requests') = Len(umpire_requests) + 1
          /\ SubSeq(umpire_requests', 1, Len(umpire_requests)) = umpire_requests
          /\ umpire_requests'[Len(umpire_requests')] =
               NewRequest(Len(games'), games'[Len(games')].coach_id)
     /\ \A g \in 1..Len(games') :
          \E i \in RequestsOf(g, umpire_requests') :
             umpire_requests'[i].coach_id = games'[g].coach_id]_vars

\* C22: a cancelled game has no assigned umpire, and its requests are
\* rejected.
CancelledClearsProviderAndRejects ==
  \A g \in GameIds :
     games[g].status = "cancelled" =>
        /\ games[g].assigned_umpire_id = NULL
        /\ \A i \in RequestsOf(g, umpire_requests) :
              umpire_requests[i].status = "rejected"

\* C29: while a confirm of the lapsed-games wizard, or a submit of the
\* pending-and-lapsed wizard, awaits the store, the wizard's index stays as
\* it is; and when a confirm or submit returns with success on a game that
\* is not the last, the wizard shows the game after the one it was made on.
WizardStrictlySequential ==
  [][\A c \in Coaches :
       /\ wiz[c].loading /\ wiz'[c].loading
            => wiz'[c].currentIndex = wiz[c].currentIndex
       /\ pwiz[c].submitting /\ pwiz'[c].submitting
            => pwiz'[c].currentIndex = pwiz[c].currentIndex
       /\ wiz[c].loading /\ ~wiz'[c].loading /\ wiz'[c].open
          /\ toast'.msg = "confirm_success"
            => /\ wiz'[c].currentIndex \in 1..Len(wiz[c].games)
               /\ wiz[c].games[wiz'[c].currentIndex] = wiz[c].game
       /\ pwiz[c].submitting /\ ~pwiz'[c].submitting /\ pwiz'[c].open
          /\ toast'.msg \in {"saved", "marked_cancelled"}
            => /\ pwiz'[c].currentIndex \in 1..Len(pwiz[c].games)
               /\ pwiz[c].games[pwiz'[c].currentIndex] = pwiz[c].game]_vars

\* C30: a wizard that is open is closed in the end, completion signalled to
\* the dashboard, when the coach keeps confirming or skipping and the store
\* answers every call.
WizardEventuallyCloses ==
  \A c \in Coaches : /\ wiz[c].open ~> ~wiz[c].open
                     /\ pwiz[c].open ~> ~pwiz[c].open

\* Game g has both coordinates, and so has the home of umpire u.
BothLocated(u, g) ==
  /\ Home(u).lat # NONE /\ Home(u).lng # NONE
  /\ games[g].latitude # NONE /\ games[g].longitude # NONE

\* The games that are open to umpire u: pending, without an umpire, not
\* scheduled before now, and within maxDistance miles of the umpire's home
\* unless the game or the home has no coordinates.
OpenTo(u) ==
  {g \in GameIds :
     /\ games[g].status = "pending"
     /\ games[g].assigned_umpire_id = NULL
     /\ games[g].game_date >= now
     /\ BothLocated(u, g) =>
          calculateDistance(Home(u).lat, Home(u).lng,
                            games[g].latitude, games[g].longitude) <= maxDistance * 100}

\* C23: the list an umpire's dashboard shows after loading is exactly the
\* games open to the umpire, each once, in ascending order of their dates;
\* and loading it leaves the tables as they were.
OpenGamesExact ==
  [][\A u \in Umpires :
       mounts'[u] # mounts[u] =>
         /\ Range(filteredGames(u)') = OpenTo(u)'
         /\ \A i, j \in 1..Len(filteredGames(u)') :
              i < j => /\ filteredGames(u)'[i] # filteredGames(u)'[j]
                       /\ games'[filteredGames(u)'[i]].game_date
                            <= games'[filteredGames(u)'[j]].game_date
         /\ storeVars' = storeVars]_vars

\* A date of the row parses: its datetime cell or its date cell.
DateParses(row, tz) ==
  parseExcelDate(row.datetime, tz).ok \/ parseExcelDate(row.date, tz).ok

\* C24: once a sheet is parsed, the preview has a row for each row of the
\* sheet; a row is valid exactly if its opponent and location cells are not
\* empty and a date of it parses; an invalid row carries its errors; and no
\* more games are created than there are valid rows.
BulkRowValidity ==
  bulk.fileName =>
    /\ Len(bulk.parsedGames) = Len(bulk.sheet)
    /\ \A i \in 1..Len(bulk.sheet) :
          /\ bulk.parsedGames[i].valid <=>
                /\ bulk.sheet[i].opponent # ""
                /\ bulk.sheet[i].location # ""
                /\ DateParses(bulk.sheet[i], bulk.tz)
          /\ ~bulk.parsedGames[i].valid => bulk.parsedGames[i].error # <<>>
    /\ Len(games) <= Len(validGames)

\* C25: a parsed row with an opponent, a location, a date cell that parses
\* and neither a time nor a datetime cell is valid with time 18:00; a row
\* without an opponent is invalid, "Missing opponent" among its errors.
BulkTimeDefault ==
  \A i \in 1..Len(bulk.parsedGames) :
     /\ /\ bulk.sheet[i].opponent # "" /\ bulk.sheet[i].location # ""
        /\ parseExcelDate(bulk.sheet[i].date, bulk.tz).ok
        /\ bulk.sheet[i].time = EmptyText /\ bulk.sheet[i].datetime = EmptyText
        => /\ bulk.parsedGames[i].valid
           /\ bulk.parsedGames[i].time = Text("hhmm", 0, 18 * 60)
     /\ bulk.sheet[i].opponent = ""
        => /\ ~bulk.parsedGames[i].valid
           /\ "Missing opponent" \in Range(bulk.parsedGames[i].error)

\* The toasts that end a bulk submit.
BulkToasts == {"bulk_created", "bulk_failed"}

\* C26: when a bulk submit ends, the rows it counts as created and as
\* failed are together the valid rows, and the rows counted as created are
\* as many as the requests it added, each the request of a game it added.
BulkCountsAddUp ==
  [][toast'.msg \in BulkToasts =>
       /\ bulk'.successCount + bulk'.errorCount = Len(validGames)
       /\ bulk'.successCount = Len(umpire_requests') - Len(umpire_requests)
       /\ \A i \in Len(umpire_requests) + 1 .. Len(umpire_requests') :
            /\ umpire_requests'[i].game_id \in Len(games) + 1 .. Len(games')
            /\ umpire_requests'[i].coach_id = games'[umpire_requests'[i].game_id].coach_id
            /\ \A j \in Len(umpire_requests) + 1 .. Len(umpire_requests') :
                 umpire_requests'[j].game_id = umpire_requests'[i].game_id => i = j]_vars

\* A submit of two valid rows has ended: the first failed at the insert of
\* its request, the second was created.
BulkSecondRowCreated ==
  /\ toast.msg = "bulk_created"
  /\ bulk.successCount = 1 /\ bulk.errorCount = 1
  /\ Len(games) = 2
  /\ umpire_requests = <<NewRequest(2, games[2].coach_id)>>

\* C27: a name lookup by a caller who is not the coach of the game, or for a
\* game that does not exist, is answered with null.
LookupOnlyForOwner ==
  [][(/\ reply' # reply
      /\ reply'.op = "lookup"
      /\ ~(reply'.id \in GameIds /\ reply'.uid = games[reply'.id].coach_id))
       => reply'.result = NULL]_vars

\* The rows of the table old are in the table new as they were.
Kept(old, new) == Len(new) >= Len(old) /\ SubSeq(new, 1, Len(old)) = old

\* C28: a step that changes or deletes a rating or a lead is a request of a
\* coach who created one.
OnlyCreatorChanges ==
  [][~Kept(ratings, ratings') \/ ~Kept(leads, leads')
       => reply'.uid \in {ratings[i].coach_id : i \in 1..Len(ratings)}
                         \cup {leads[i].coach_id : i \in 1..Len(leads)}]_vars

\* C31: while a wizard is open on a list of n games, n > 0, its index is one
\* of 0 .. n - 1.
WizardIndexInList ==
  \A c \in Coaches :
     /\ wiz[c].open /\ Len(wiz[c].games) > 0
          => wiz[c].currentIndex \in 0..Len(wiz[c].games) - 1
     /\ pwiz[c].open /\ Len(pwiz[c].games) > 0
          => pwiz[c].currentIndex \in 0..Len(pwiz[c].games) - 1

\* C32: a step in which the confirm of the lapsed-games wizard returns and
\* its game becomes completed leaves a rating of the game by the coach.
ConfirmRatesBeforeCompleting ==
  [][\A c \in Coaches : \A g \in GameIds :
       (/\ wiz[c].loading /\ ~wiz'[c].loading /\ wiz[c].game = g
        /\ games[g].status # "completed" /\ games'[g].status = "completed")
         => existing_rating(c, g, ratings') # 0]_vars

\* C37: every lead is of a completed game, and no game has two leads.
LeadsOfCompletedGamesOnly ==
  /\ \A i \in 1..Len(leads) :
        /\ leads[i].game_id \in GameIds
        /\ games[leads[i].game_id].status = "completed"
  /\ \A g \in GameIds : Cardinality(LeadsOf(g, leads)) <= 1

\* C38: when a bulk submit ends, the games it added are as many as the rows
\* it counts as created, and each of them has its request.
BulkNoPartialRow ==
  [][toast'.msg \in BulkToasts =>
       /\ Len(games') - Len(games) = bulk'.successCount
       /\ \A g \in Len(games) + 1 .. Len(games') :
            RequestsOf(g, umpire_requests') # {}]_vars

\* C39: a rating created more than 24 hours ago is left with its score and
\* comment by every step.
RatingFrozenAfterWindow ==
  [][\A i \in 1..Len(ratings) :
       now - ratings[i].created_at > 24 * 60
         => /\ i <= Len(ratings')
            /\ ratings'[i].rating = ratings[i].rating
            /\ ratings'[i].comment = ratings[i].comment]_vars

\* The rating dialog, opened on a rating inside its window, has been
\* submitted after the window and has reported the rating as updated.
StaleDialogSubmitted ==
  /\ toast.msg = "rating_updated"
  /\ \E i \in 1..Len(ratings) :
        /\ ratings[i].game_id = toast.game /\ ratings[i].coach_id = toast.user
        /\ now - ratings[i].created_at > 24 * 60

\* C34: when the confirm of a game that the coach has rated already returns,
\* its requests served, the coach is told it succeeded, the ratings are as
\* they were, the game is completed, and the wizard closes after the last
\* game and moves on by one after another.
DuplicateConfirmSwallowed ==
  [][\A c \in Coaches :
       (/\ wiz[c].loading /\ ~wiz'[c].loading /\ faults' = faults
        /\ wiz[c].game \in GameIds
        /\ existing_rating(c, wiz[c].game, ratings) # 0)
         => /\ toast'.msg = "confirm_success"
            /\ ratings' = ratings
            /\ games'[wiz[c].game].status = "completed"
            /\ IF wiz[c].last THEN ~wiz'[c].open
               ELSE wiz'[c].currentIndex = wiz[c].currentIndex + 1]_vars

\* A step of the lapsed-games wizard of c that is a Skip: the wizard is open
\* on a game and moves on by one or closes, no handler starting or returning.
SkipStep(c) ==
  /\ wiz[c].open /\ wizCurrent(wiz[c]) # 0
  /\ wiz'[c].loading = wiz[c].loading /\ mounts' = mounts
  /\ wiz'[c].currentIndex = wiz[c].currentIndex + 1 \/ ~wiz'[c].open

\* The same of the wizard of the lapsed pending games.
PendingSkipStep(c) ==
  /\ pwiz[c].open /\ wizCurrent(pwiz[c]) # 0
  /\ pwiz'[c].submitting = pwiz[c].submitting /\ mounts' = mounts
  /\ pwiz'[c].currentIndex = pwiz[c].currentIndex + 1 \/ ~pwiz'[c].open

\* C33: a Skip in either wizard leaves games, requests, ratings and leads as
\* they are, and the scan for lapsed games, run in the state the Skip leaves,
\* offers the skipped game again if it is assigned, respectively pending.
SkipStoresNothing ==
  [][\A c \in Coaches :
       /\ SkipStep(c) =>
            /\ storeVars' = storeVars
            /\ games[wizCurrent(wiz[c])].status = "assigned"
                 => wizCurrent(wiz[c]) \in Range(checkPastGames(c).games)'
       /\ PendingSkipStep(c) =>
            /\ storeVars' = storeVars
            /\ games[wizCurrent(pwiz[c])].status = "pending"
                 => wizCurrent(pwiz[c]) \in Range(checkPastPendingGames(c).games)']_vars

\* The wizard of the assigned games has skipped its first game of two: it is
\* on the second with nothing in flight, the first assigned and unrated still.
SkippedFirstGame ==
  \E c \in Coaches :
     /\ wiz[c].open /\ wiz[c].currentIndex = 1 /\ ~wiz[c].loading
     /\ games[wiz[c].games[1]].status = "assigned"
     /\ ratings = <<>>

\* The same of the wizard of the pending games, no lead stored.
SkippedFirstPendingGame ==
  \E c \in Coaches :
     /\ pwiz[c].open /\ pwiz[c].currentIndex = 1 /\ ~pwiz[c].submitting
     /\ games[pwiz[c].games[1]].status = "pending"
     /\ leads = <<>>

\* A step of the lapsed-games wizard of c that is a Previous.
PreviousStep(c) ==
  /\ wiz[c].open /\ wiz'[c].open /\ mounts' = mounts
  /\ wiz'[c].currentIndex = wiz[c].currentIndex - 1

\* C35: a Previous of the lapsed-games wizard shows the game before the
\* current one in the same list and changes nothing stored, and no step
\* taken while the wizard is open, a confirm or a skip of a game shown again
\* among them, removes or changes a rating stored before it.
PreviousLosesNothing ==
  [][\A c \in Coaches :
       /\ PreviousStep(c) =>
            /\ wiz'[c].games = wiz[c].games
            /\ wizCurrent(wiz'[c]) = wiz[c].games[wiz[c].currentIndex]
            /\ storeVars' = storeVars
       /\ wiz[c].open => Kept(ratings, ratings')]_vars

\* The wizard is back on the first of its two games, which the coach has
\* rated 4 already; nothing is in flight and no request has failed.
RatedGameShownAgain ==
  \E c \in Coaches :
     /\ wiz[c].open /\ Len(wiz[c].games) = 2 /\ wiz[c].currentIndex = 0
     /\ ~wiz[c].loading /\ faults = 0 /\ toast = NoToast
     /\ Len(ratings) = 1
     /\ ratings[1].game_id = wiz[c].games[1] /\ ratings[1].coach_id = c
     /\ ratings[1].rating = 4

\* C36: every lead has a name and a channel that are not empty; a submit of
\* the wizard of the lapsed pending games in flight has its answer, and for
\* a played game a name that is not blank and a channel; and a game becomes
\* completed or cancelled in a step of that wizard only with an answer.
PendingOutcomeNeedsAnswer ==
  [][/\ \A i \in 1..Len(leads') :
          leads'[i].umpire_name # "" /\ leads'[i].how_found # ""
     /\ \A c \in Coaches :
          /\ pwiz'[c].submitting =>
               /\ pwiz'[c].gameCompleted # NULL
               /\ pwiz'[c].played =>
                    Trim(pwiz'[c].umpireName) # "" /\ pwiz'[c].howFound # ""
          /\ (/\ pwiz[c].submitting /\ ~pwiz'[c].submitting
              /\ games'[pwiz[c].game].status # games[pwiz[c].game].status)
               => /\ pwiz[c].gameCompleted # NULL
                  /\ games'[pwiz[c].game].status =
                       IF pwiz[c].gameCompleted = "true" THEN "completed"
                       ELSE "cancelled"]_vars

\* The wizard has stored both outcomes: a lead with name and channel for a
\* game that is completed, and another game cancelled without a lead.
BothOutcomesStored ==
  /\ Len(leads) = 1 /\ leads[1].umpire_name = "Bob" /\ leads[1].how_found = "referral"
  /\ games[leads[1].game_id].status = "completed"
  /\ games[leads[1].game_id].assigned_umpire_id = NULL
  /\ \E g \in GameIds : /\ games[g].status = "cancelled"
                         /\ games[g].assigned_umpire_id = NULL
                         /\ toast = Toast(games[g].coach_id, "marked_cancelled", g)

====
